---- MODULE Spec2Model ----
(***************************************************************************)
(* PageRank over a small closed corpus (pagerank.py): the corpus loader    *)
(* crawl, the transition model, the sampling estimator sample_pagerank and *)
(* the iterative estimator iterate_pagerank.                               *)
(*                                                                         *)
(* Numbers: Python floats are modelled as exact rationals <<num, den>> in  *)
(* lowest terms with den > 0, so that sums, quotients and the 0.001        *)
(* comparison are computed, not assumed.                                   *)
(* Names: a file name is the sequence of its characters, so that           *)
(* str.endswith is computed on the characters.                             *)
(***************************************************************************)
EXTENDS Integers, Sequences, FiniteSets, TLC

\* ---------------------------------------------------------------- bounds
MaxFiles == 2      \* .html files a directory may hold (crawl)
MaxLinks == 2      \* distinct href targets in one file (crawl)
MaxPages == 3      \* pages of a corpus handed to the estimators
MaxWalkPages == 2  \* pages of a corpus handed to sample_pagerank
MaxSamples == 3    \* largest n of sample_pagerank
MaxDenominator == 10000000  \* iterate_pagerank: the model follows another
                            \* round while every rank's denominator is within it

\* ------------------------------------------------------------ arithmetic
\* Rationals are pairs of integers, and the operations are functions over
\* them: an argument is a value by the time the operation is applied to it.
Q == Int \X Int

GCD[a \in Nat, b \in Nat] == IF b = 0 THEN a ELSE GCD[b, a % b]

Abs(x) == IF x < 0 THEN -x ELSE x

\* the rational n/d (d # 0) in lowest terms with a positive denominator
Rat[n \in Int, d \in Int] ==
    LET g == GCD[Abs(n), Abs(d)]
    IN  IF d < 0 THEN <<-(n \div g), -(d \div g)>> ELSE <<n \div g, d \div g>>

Zero == <<0, 1>>
One == <<1, 1>>

RAdd[x \in Q, y \in Q] ==
    LET l == (x[2] \div GCD[x[2], y[2]]) * y[2]
    IN  Rat[x[1] * (l \div x[2]) + y[1] * (l \div y[2]), l]

RNeg[x \in Q] == <<-x[1], x[2]>>

RSub[x \in Q, y \in Q] == RAdd[x, RNeg[y]]

RMul[x \in Q, y \in Q] ==
    LET a == Rat[x[1], y[2]]
        b == Rat[y[1], x[2]]
    IN  <<a[1] * b[1], a[2] * b[2]>>

\* x / k for a positive integer k (every divisor of the program is a length)
RDivInt[x \in Q, k \in Nat] == RMul[x, <<1, k>>]

RAbs[x \in Q] == <<Abs(x[1]), x[2]>>

\* a/b < c/d for b, d > 0, by integer parts and then the remainders'
\* reciprocals, so that no cross product is formed
Less[a \in Int, b \in Nat, c \in Int, d \in Nat] ==
    IF a \div b # c \div d THEN a \div b < c \div d
    ELSE IF c % d = 0 THEN FALSE
    ELSE IF a % b = 0 THEN TRUE
    ELSE Less[d, c % d, b, a % b]

RLess[x \in Q, y \in Q] == Less[x[1], x[2], y[1], y[2]]

\* sum(f[k] for k in S)
RSum(f, S) ==
    LET sum[T \in SUBSET S] ==
            IF T = {} THEN Zero
            ELSE LET k == CHOOSE e \in T : TRUE
                 IN  RAdd[f[k], sum[T \ {k}]]
    IN  sum[S]

\* ------------------------------------------------------------ file names
Html == <<".", "h", "t", "m", "l">>
Digits == <<"1", "2", "3", "4", "5", "6">>

PageName(i) == <<Digits[i]>> \o Html
PageNames(k) == {PageName(i) : i \in 1..k}

NotesTxt == <<"n", ".", "t", "x", "t">>       \* a file that is no page
External == <<"x">> \o Html                   \* a page outside the directory

\* str.endswith
endswith(s, suffix) ==
    /\ Len(s) >= Len(suffix)
    /\ SubSeq(s, Len(s) - Len(suffix) + 1, Len(s)) = suffix

\* ----------------------------------------------------------------- state
VARIABLES
    pc,                     \* position in the function being run
    directory,              \* crawl: file name -> set of href targets found in it
    unread,                 \* crawl: files the first loop has yet to see
    pages,                  \* crawl: the dict under construction
    unfiltered,             \* crawl: keys the second loop has yet to see
    corpus,                 \* the corpus handed to an estimator
    damping_factor,         \* rational in [0, 1]
    page,                   \* transition_model: the current page
    prob_dist,              \* transition_model: the distribution returned
    n,                      \* sample_pagerank: number of samples
    transition_model_dict,  \* sample_pagerank: state number -> row of the chain
    samples,                \* sample_pagerank: the walk, state numbers then pages
    counts,                 \* sample_pagerank: value_counts(normalize=True)
    pagerank,               \* the rank table under construction
    old_pagerank,           \* iterate_pagerank: the copy taken at the round's start
    unvisited               \* pages the current for-loop has yet to see

vars == <<pc, directory, unread, pages, unfiltered, corpus, damping_factor,
          page, prob_dist, n,
          transition_model_dict, samples, counts, pagerank, old_pagerank,
          unvisited>>

crawlVars == <<directory, unread, pages, unfiltered>>
modelVars == <<page, prob_dist>>
sampleVars == <<n, transition_model_dict, samples, counts>>
iterateVars == <<old_pagerank>>

EmptyDict == [k \in {} |-> {}]

\* ----------------------------------------------------------------- crawl
\* what an href may name: a page of the directory, a file of the directory
\* that is no page, or a page that is not in the directory
LinkTargets == PageNames(MaxFiles) \cup {NotesTxt, External}

LinkSets == {S \in SUBSET LinkTargets : Cardinality(S) <= MaxLinks}

\* a directory: some .html files with the hrefs the pattern finds in each,
\* and possibly a file with another extension (never opened, so no content)
Directories ==
    UNION {[H \cup O -> LinkSets] : H \in SUBSET PageNames(MaxFiles), O \in SUBSET {NotesTxt}}

InitCrawl ==
    /\ directory \in {d \in Directories : \A f \in DOMAIN d : ~endswith(f, Html) => d[f] = {}}
    /\ unread = DOMAIN directory
    /\ pages = EmptyDict
    /\ unfiltered = {}
    /\ pc = "crawl_read"
    /\ corpus = EmptyDict
    /\ damping_factor = Zero
    /\ page = << >>
    /\ prob_dist = EmptyDict
    /\ n = 0
    /\ transition_model_dict = EmptyDict
    /\ samples = << >>
    /\ counts = EmptyDict
    /\ pagerank = EmptyDict
    /\ old_pagerank = EmptyDict
    /\ unvisited = {}

\* set(links), the file's own name left in
all_links(links, filename) == links

\* set(links) - {filename}
own_links(links, filename) == links \ {filename}

\* set(link for link in pages[filename] if link in pages)
corpus_links(links, keys) == {link \in links : link \in keys}

\* first loop, a file that is no page: continue
CrawlSkip(filename) ==
    /\ pc = "crawl_read"
    /\ filename \in unread
    /\ ~endswith(filename, Html)
    /\ unread' = unread \ {filename}
    /\ UNCHANGED <<pc, directory, pages, unfiltered, corpus, damping_factor,
                   pagerank, unvisited>>
    /\ UNCHANGED modelVars
    /\ UNCHANGED sampleVars
    /\ UNCHANGED iterateVars

\* first loop, a page: pages[filename] = set(links) - {filename}
CrawlRead(filename) ==
    /\ pc = "crawl_read"
    /\ filename \in unread
    /\ endswith(filename, Html)
    /\ pages' = [f \in DOMAIN pages \cup {filename} |->
                    IF f = filename THEN own_links(directory[filename], filename)
                    ELSE pages[f]]
    /\ unread' = unread \ {filename}
    /\ UNCHANGED <<pc, directory, unfiltered, corpus, damping_factor,
                   pagerank, unvisited>>
    /\ UNCHANGED modelVars
    /\ UNCHANGED sampleVars
    /\ UNCHANGED iterateVars

\* the first loop is exhausted: the second loop starts over the keys
CrawlReadDone ==
    /\ pc = "crawl_read"
    /\ unread = {}
    /\ unfiltered' = DOMAIN pages
    /\ pc' = "crawl_filter"
    /\ UNCHANGED <<directory, unread, pages, corpus, damping_factor,
                   pagerank, unvisited>>
    /\ UNCHANGED modelVars
    /\ UNCHANGED sampleVars
    /\ UNCHANGED iterateVars

\* second loop: keep the links that are keys of pages
CrawlFilter(filename) ==
    /\ pc = "crawl_filter"
    /\ filename \in unfiltered
    /\ pages' = [pages EXCEPT ![filename] = corpus_links(pages[filename], DOMAIN pages)]
    /\ unfiltered' = unfiltered \ {filename}
    /\ UNCHANGED <<pc, directory, unread, corpus, damping_factor,
                   pagerank, unvisited>>
    /\ UNCHANGED modelVars
    /\ UNCHANGED sampleVars
    /\ UNCHANGED iterateVars

\* return pages
CrawlReturn ==
    /\ pc = "crawl_filter"
    /\ unfiltered = {}
    /\ corpus' = pages
    /\ pc' = "crawl_done"
    /\ UNCHANGED <<directory, unread, pages, unfiltered, damping_factor,
                   pagerank, unvisited>>
    /\ UNCHANGED modelVars
    /\ UNCHANGED sampleVars
    /\ UNCHANGED iterateVars

NextCrawl ==
    \/ \E filename \in DOMAIN directory : CrawlSkip(filename)
    \/ \E filename \in DOMAIN directory : CrawlRead(filename)
    \/ CrawlReadDone
    \/ \E filename \in DOMAIN directory : CrawlFilter(filename)
    \/ CrawlReturn

SpecCrawl == InitCrawl /\ [][NextCrawl]_vars

\* C8: the corpus crawl returns has exactly the files whose name ends in
\* ".html" as keys, every link set is a subset of the keys, and no page
\* links to itself.
C8_CrawlCorpus ==
    pc = "crawl_done" =>
        /\ DOMAIN corpus = {f \in DOMAIN directory : endswith(f, Html)}
        /\ \A p \in DOMAIN corpus :
              /\ corpus[p] \subseteq DOMAIN corpus
              /\ p \notin corpus[p]
              /\ corpus[p] = (directory[p] \cap DOMAIN corpus) \ {p}

\* crawl has returned a corpus from a directory holding a self-link, a link
\* out of the corpus and a file that is no page, and a link was kept
C8_Witness ==
    /\ pc = "crawl_done"
    /\ NotesTxt \in DOMAIN directory
    /\ \E p \in DOMAIN corpus :
          /\ p \in directory[p]
          /\ directory[p] \ DOMAIN directory # {}
    /\ \E p \in DOMAIN corpus : corpus[p] # {}

\* ------------------------------------------------------ estimator inputs
\* the corpora crawl can return over k pages: every link set within the
\* keys, no page linking to itself
CorporaOver(K) == {c \in [K -> SUBSET K] : \A p \in K : p \notin c[p]}

Corpora(maxPages) == UNION {CorporaOver(PageNames(k)) : k \in 1..maxPages}

\* damping factors: the ends of [0, 1], DAMPING = 0.85 and two more
Dampings == {Zero, <<1, 4>>, <<1, 2>>, <<17, 20>>, One}

\* enumerate(corpus): the keys in the dict's order, numbered from 0
enumerate(c) == [i \in 0..(Cardinality(DOMAIN c) - 1) |-> PageName(i + 1)]

\* ------------------------------------------------------ transition_model
\* the pages the current page is taken to link to: its links, or every
\* page of the corpus when it has none
linked_pages(c, p) == IF Cardinality(c[p]) = 0 THEN DOMAIN c ELSE c[p]

\* damping_factor / len(corpus), whatever the page links to
link_prob_over_corpus(c, p, d) == RDivInt[d, Cardinality(DOMAIN c)]

\* damping_factor / num_linked_pages
link_prob(c, p, d) == RDivInt[d, Cardinality(linked_pages(c, p))]

\* 1 - damping_factor, not divided among the pages
random_prob_undivided(c, d) == RSub[One, d]

\* (1 - damping_factor) / len(corpus)
random_prob(c, d) == RDivInt[RSub[One, d], Cardinality(DOMAIN c)]

transition_model(c, p, d) ==
    [q \in DOMAIN c |->
        IF q \in linked_pages(c, p)
        THEN RAdd[link_prob(c, p, d), random_prob(c, d)]
        ELSE random_prob(c, d)]

InitTransition ==
    /\ corpus \in Corpora(MaxPages)
    /\ damping_factor \in Dampings
    /\ page \in DOMAIN corpus
    /\ prob_dist = EmptyDict
    /\ pc = "model_call"
    /\ directory = EmptyDict
    /\ unread = {}
    /\ pages = EmptyDict
    /\ unfiltered = {}
    /\ n = 0
    /\ transition_model_dict = EmptyDict
    /\ samples = << >>
    /\ counts = EmptyDict
    /\ pagerank = EmptyDict
    /\ old_pagerank = EmptyDict
    /\ unvisited = {}

TransitionModel ==
    /\ pc = "model_call"
    /\ prob_dist' = transition_model(corpus, page, damping_factor)
    /\ pc' = "model_done"
    /\ UNCHANGED <<corpus, damping_factor, page, pagerank, unvisited>>
    /\ UNCHANGED crawlVars
    /\ UNCHANGED sampleVars
    /\ UNCHANGED iterateVars

NextTransition == TransitionModel

SpecTransition == InitTransition /\ [][NextTransition]_vars

\* C6: transition_model returns a mapping over exactly the corpus keys whose
\* values are all non-negative and sum to 1.
C6_Distribution ==
    pc = "model_done" =>
        /\ DOMAIN prob_dist = DOMAIN corpus
        /\ \A q \in DOMAIN prob_dist : prob_dist[q][1] >= 0 /\ prob_dist[q][2] > 0
        /\ RSum(prob_dist, DOMAIN prob_dist) = One

\* a distribution was returned for a page with links, over a corpus with a
\* page it does not link to, with a damping factor strictly inside (0, 1)
C6_Witness ==
    /\ pc = "model_done"
    /\ corpus[page] # {}
    /\ DOMAIN corpus \ corpus[page] # {}
    /\ damping_factor = <<17, 20>>
    /\ Cardinality(corpus[page]) = 2

\* C7: with L = corpus[page] and N = |corpus|: if L is empty every page gets
\* 1/N; otherwise a page in L gets d/|L| + (1 - d)/N and a page outside L
\* gets (1 - d)/N.
C7_Reference ==
    pc = "model_done" =>
        LET L == corpus[page]
            N == Cardinality(DOMAIN corpus)
            d == damping_factor
            base == Rat[d[2] - d[1], d[2] * N]
        IN  /\ DOMAIN prob_dist = DOMAIN corpus
            /\ \A q \in DOMAIN corpus :
                  prob_dist[q] =
                     IF L = {} THEN Rat[1, N]
                     ELSE IF q \in L
                          THEN RAdd[Rat[d[1], d[2] * Cardinality(L)], base]
                          ELSE base

\* a sink page's distribution was returned under a damping factor below 1
C7_Witness ==
    /\ pc = "model_done"
    /\ corpus[page] = {}
    /\ Cardinality(DOMAIN corpus) = 3
    /\ RLess[Zero, damping_factor]
    /\ RLess[damping_factor, One]

\* ------------------------------------------------------- sample_pagerank
InitSample ==
    /\ corpus \in Corpora(MaxWalkPages)
    /\ damping_factor \in Dampings
    /\ n \in 1..MaxSamples
    /\ transition_model_dict = EmptyDict
    /\ samples = << >>
    /\ counts = EmptyDict
    /\ pagerank = EmptyDict
    /\ pc = "sample_build"
    /\ directory = EmptyDict
    /\ unread = {}
    /\ pages = EmptyDict
    /\ unfiltered = {}
    /\ page = << >>
    /\ prob_dist = EmptyDict
    /\ old_pagerank = EmptyDict
    /\ unvisited = {}

\* the row of state i: transition_model_dict[i][j] = trans_model[linked_page]
transition_row(c, d, i) ==
    LET trans_model == transition_model(c, enumerate(c)[i], d)
    IN  [j \in DOMAIN enumerate(c) |-> trans_model[enumerate(c)[j]]]

\* the states MarkovChain.sample can draw after state i: those the row gives
\* a positive probability
next_states(rows, i) == {j \in DOMAIN rows[i] : rows[i][j][1] > 0}

\* samples.replace({"pages": state_map}): state numbers become page names
replace(walk, state_map) == [k \in DOMAIN walk |-> state_map[walk[k]]]

\* value_counts(normalize=True): the relative frequency of every value that
\* occurs in the column; a value that does not occur has no entry
value_counts(walk) ==
    [p \in {walk[k] : k \in DOMAIN walk} |->
        Rat[Cardinality({k \in DOMAIN walk : walk[k] = p}), Len(walk)]]

\* for i, page in enumerate(corpus): one row of the transition model
SampleBuildRow ==
    /\ pc = "sample_build"
    /\ LET i == Cardinality(DOMAIN transition_model_dict)
       IN  /\ i < Cardinality(DOMAIN corpus)
           /\ transition_model_dict' =
                 [k \in 0..i |-> IF k = i THEN transition_row(corpus, damping_factor, i)
                                 ELSE transition_model_dict[k]]
    /\ UNCHANGED <<pc, corpus, damping_factor, n, samples, counts, pagerank, unvisited>>
    /\ UNCHANGED crawlVars
    /\ UNCHANGED modelVars
    /\ UNCHANGED iterateVars

\* model.add_transition_model("pages", transition_model_dict)
SampleAddModel ==
    /\ pc = "sample_build"
    /\ Cardinality(DOMAIN transition_model_dict) = Cardinality(DOMAIN corpus)
    /\ pc' = "sample_walk"
    /\ UNCHANGED <<corpus, damping_factor, pagerank, unvisited>>
    /\ UNCHANGED crawlVars
    /\ UNCHANGED modelVars
    /\ UNCHANGED sampleVars
    /\ UNCHANGED iterateVars

\* model.sample(size=n), first row: a state drawn uniformly at random
SampleStart(state) ==
    /\ pc = "sample_walk"
    /\ samples = << >>
    /\ state \in DOMAIN transition_model_dict
    /\ samples' = <<state>>
    /\ UNCHANGED <<pc, corpus, damping_factor, n, transition_model_dict, counts,
                   pagerank, unvisited>>
    /\ UNCHANGED crawlVars
    /\ UNCHANGED modelVars
    /\ UNCHANGED iterateVars

\* model.sample(size=n), a later row: drawn from the row of the last state
SampleStep(state) ==
    /\ pc = "sample_walk"
    /\ samples # << >>
    /\ Len(samples) < n
    /\ state \in next_states(transition_model_dict, samples[Len(samples)])
    /\ samples' = Append(samples, state)
    /\ UNCHANGED <<pc, corpus, damping_factor, n, transition_model_dict, counts,
                   pagerank, unvisited>>
    /\ UNCHANGED crawlVars
    /\ UNCHANGED modelVars
    /\ UNCHANGED iterateVars

\* the walk has n rows: map state numbers to page names
SampleReplace ==
    /\ pc = "sample_walk"
    /\ Len(samples) = n
    /\ samples' = replace(samples, enumerate(corpus))
    /\ pc' = "sample_count"
    /\ UNCHANGED <<corpus, damping_factor, n, transition_model_dict, counts,
                   pagerank, unvisited>>
    /\ UNCHANGED crawlVars
    /\ UNCHANGED modelVars
    /\ UNCHANGED iterateVars

\* counts = samples['pages'].value_counts(normalize=True)
SampleCount ==
    /\ pc = "sample_count"
    /\ counts' = value_counts(samples)
    /\ unvisited' = DOMAIN corpus
    /\ pc' = "sample_update"
    /\ UNCHANGED <<corpus, damping_factor, n, transition_model_dict, samples, pagerank>>
    /\ UNCHANGED crawlVars
    /\ UNCHANGED modelVars
    /\ UNCHANGED iterateVars

\* for page in corpus: pagerank[page] = counts[page], the page has an entry
SampleAssign(p) ==
    /\ pc = "sample_update"
    /\ p \in unvisited
    /\ p \in DOMAIN counts
    /\ pagerank' = [q \in DOMAIN pagerank \cup {p} |->
                       IF q = p THEN counts[p] ELSE pagerank[q]]
    /\ unvisited' = unvisited \ {p}
    /\ UNCHANGED <<pc, corpus, damping_factor>>
    /\ UNCHANGED crawlVars
    /\ UNCHANGED modelVars
    /\ UNCHANGED sampleVars
    /\ UNCHANGED iterateVars

\* for page in corpus: counts[page] has no entry for the page: KeyError
SampleKeyError(p) ==
    /\ pc = "sample_update"
    /\ p \in unvisited
    /\ p \notin DOMAIN counts
    /\ pc' = "sample_KeyError"
    /\ UNCHANGED <<corpus, damping_factor, pagerank, unvisited>>
    /\ UNCHANGED crawlVars
    /\ UNCHANGED modelVars
    /\ UNCHANGED sampleVars
    /\ UNCHANGED iterateVars

\* return pagerank
SampleReturn ==
    /\ pc = "sample_update"
    /\ unvisited = {}
    /\ pc' = "sample_done"
    /\ UNCHANGED <<corpus, damping_factor, pagerank, unvisited>>
    /\ UNCHANGED crawlVars
    /\ UNCHANGED modelVars
    /\ UNCHANGED sampleVars
    /\ UNCHANGED iterateVars

NextSample ==
    \/ SampleBuildRow
    \/ SampleAddModel
    \/ \E state \in DOMAIN transition_model_dict : SampleStart(state)
    \/ \E state \in DOMAIN transition_model_dict : SampleStep(state)
    \/ SampleReplace
    \/ SampleCount
    \/ \E p \in DOMAIN corpus : SampleAssign(p)
    \/ \E p \in DOMAIN corpus : SampleKeyError(p)
    \/ SampleReturn

SpecSample == InitSample /\ [][NextSample]_vars

\* sample_pagerank has ended, by a return or by an exception
SampleEnded == pc \in {"sample_done", "sample_KeyError"}

\* visits to page p in the walk, over n
Frequency(p) == Rat[Cardinality({k \in DOMAIN samples : samples[k] = p}), n]

\* C4: with n = 1, sample_pagerank returns normally a table with an entry
\* for every corpus page in which the start page of the walk has 1 and every
\* other page has 0.
C4_SingleSample ==
    (SampleEnded /\ n = 1) =>
        /\ pc = "sample_done"
        /\ DOMAIN pagerank = DOMAIN corpus
        /\ \A p \in DOMAIN corpus :
              pagerank[p] = IF p = samples[1] THEN One ELSE Zero

\* C5: for every n >= 1 and every walk, sample_pagerank returns a table over
\* exactly the corpus pages in which each page has (visits to it) / n, a
\* page never visited having 0, so that the values sum to 1.
C5_Frequencies ==
    SampleEnded =>
        /\ pc = "sample_done"
        /\ DOMAIN pagerank = DOMAIN corpus
        /\ \A p \in DOMAIN corpus : pagerank[p] = Frequency(p)
        /\ RSum(pagerank, DOMAIN pagerank) = One

\* ------------------------------------------------------ iterate_pagerank
\* damping factors whose ranks stay within MaxDenominator until convergence
IterateDampings == {Zero, <<1, 4>>, <<1, 2>>, One}

Tolerance == <<1, 1000>>

\* iterate_pagerank uses a page name only as a dict key, and the model
\* visits the keys in every order, so corpora that differ by a renaming of
\* the pages behave alike: one corpus of each shape is run, the one whose
\* link relation has the least code among its renamings
Links(c) ==
    {e \in (1..Cardinality(DOMAIN c)) \X (1..Cardinality(DOMAIN c)) :
        PageName(e[2]) \in c[PageName(e[1])]}

Code(k, E) ==
    LET sum[T \in SUBSET E] ==
            IF T = {} THEN 0
            ELSE LET e == CHOOSE x \in T : TRUE
                 IN  2 ^ ((e[1] - 1) * k + (e[2] - 1)) + sum[T \ {e}]
    IN  sum[E]

LeastOfItsShape(c) ==
    LET k == Cardinality(DOMAIN c)
        least == Code(k, Links(c))
    IN  \A r \in Permutations(1..k) :
            least <= Code(k, {<<r[e[1]], r[e[2]]>> : e \in Links(c)})

InitIterate ==
    /\ corpus \in {c \in Corpora(MaxPages) : LeastOfItsShape(c)}
    /\ damping_factor \in IterateDampings
    /\ pagerank = EmptyDict
    /\ old_pagerank = EmptyDict
    /\ unvisited = {}
    /\ pc = "iterate_init"
    /\ directory = EmptyDict
    /\ unread = {}
    /\ pages = EmptyDict
    /\ unfiltered = {}
    /\ page = << >>
    /\ prob_dist = EmptyDict
    /\ n = 0
    /\ transition_model_dict = EmptyDict
    /\ samples = << >>
    /\ counts = EmptyDict

\* {page: 1 / len(corpus) for page in corpus}
initial_pagerank(c) == [p \in DOMAIN c |-> Rat[1, Cardinality(DOMAIN c)]]

\* (1 - d) / len(corpus)
\*    + d * sum(old[i] / len(corpus[i]) for i in corpus if page in corpus[i])
new_rank(c, d, old, p) ==
    LET linking == {i \in DOMAIN c : p \in c[i]}
        share == [i \in linking |-> RDivInt[old[i], Cardinality(c[i])]]
    IN  RAdd[RDivInt[RSub[One, d], Cardinality(DOMAIN c)],
             RMul[d, RSum(share, linking)]]

\* pagerank[page] = ..., computed from the table being overwritten
update_page_in_place(c, d, old, current, p) ==
    [current EXCEPT ![p] = new_rank(c, d, current, p)]

\* pagerank[page] = ..., computed from old_pagerank, stored into pagerank
update_page(c, d, old, current, p) ==
    [current EXCEPT ![p] = new_rank(c, d, old, p)]

\* any(abs(old_pagerank[page] - pagerank[page]) < 0.001 for page in pagerank)
converged_any(old, current) ==
    \E p \in DOMAIN current : RLess[RAbs[RSub[old[p], current[p]]], Tolerance]

\* all(abs(old_pagerank[page] - pagerank[page]) < 0.001 for page in pagerank)
converged(old, current) ==
    \A p \in DOMAIN current : RLess[RAbs[RSub[old[p], current[p]]], Tolerance]

\* pagerank = {page: 1 / len(corpus) for page in corpus}
IterateInit ==
    /\ pc = "iterate_init"
    /\ pagerank' = initial_pagerank(corpus)
    /\ pc' = "iterate_copy"
    /\ UNCHANGED <<corpus, damping_factor, old_pagerank, unvisited>>
    /\ UNCHANGED crawlVars
    /\ UNCHANGED modelVars
    /\ UNCHANGED sampleVars

\* old_pagerank copied before the first round only, not in each round
IterateCopyOnce ==
    /\ pc = "iterate_copy"
    /\ \A p \in DOMAIN pagerank : pagerank[p][2] <= MaxDenominator
    /\ old_pagerank' = IF old_pagerank = EmptyDict THEN pagerank ELSE old_pagerank
    /\ unvisited' = DOMAIN pagerank
    /\ pc' = "iterate_update"
    /\ UNCHANGED <<corpus, damping_factor, pagerank>>
    /\ UNCHANGED crawlVars
    /\ UNCHANGED modelVars
    /\ UNCHANGED sampleVars

\* while True: old_pagerank = pagerank.copy(), and the for-loop starts
IterateCopy ==
    /\ pc = "iterate_copy"
    /\ \A p \in DOMAIN pagerank : pagerank[p][2] <= MaxDenominator
    /\ old_pagerank' = pagerank
    /\ unvisited' = DOMAIN pagerank
    /\ pc' = "iterate_update"
    /\ UNCHANGED <<corpus, damping_factor, pagerank>>
    /\ UNCHANGED crawlVars
    /\ UNCHANGED modelVars
    /\ UNCHANGED sampleVars

\* for page in pagerank: one page's rank is overwritten (dict order is the
\* order in which the loader met the files, so any order may occur)
IterateUpdate(p) ==
    /\ pc = "iterate_update"
    /\ p \in unvisited
    /\ pagerank' = update_page(corpus, damping_factor, old_pagerank, pagerank, p)
    /\ unvisited' = unvisited \ {p}
    /\ UNCHANGED <<pc, corpus, damping_factor, old_pagerank>>
    /\ UNCHANGED crawlVars
    /\ UNCHANGED modelVars
    /\ UNCHANGED sampleVars

\* the round is over and the check fails: the loop goes round again
IterateContinue ==
    /\ pc = "iterate_update"
    /\ unvisited = {}
    /\ ~converged(old_pagerank, pagerank)
    /\ pc' = "iterate_copy"
    /\ UNCHANGED <<corpus, damping_factor, pagerank, old_pagerank, unvisited>>
    /\ UNCHANGED crawlVars
    /\ UNCHANGED modelVars
    /\ UNCHANGED sampleVars

\* the round is over and the check holds: break, return pagerank
IterateBreak ==
    /\ pc = "iterate_update"
    /\ unvisited = {}
    /\ converged(old_pagerank, pagerank)
    /\ pc' = "iterate_done"
    /\ UNCHANGED <<corpus, damping_factor, pagerank, old_pagerank, unvisited>>
    /\ UNCHANGED crawlVars
    /\ UNCHANGED modelVars
    /\ UNCHANGED sampleVars

NextIterate ==
    \/ IterateInit
    \/ IterateCopy
    \/ \E p \in DOMAIN corpus : IterateUpdate(p)
    \/ IterateContinue
    \/ IterateBreak

SpecIterate == InitIterate /\ [][NextIterate]_vars

\* the loop is sequential and nothing suspends it: a step that can be taken
\* is taken
FairSpecIterate == SpecIterate /\ WF_vars(NextIterate)

\* every page of the round has been visited; the check comes next
RoundOver == pc = "iterate_update" /\ unvisited = {}

\* C1: a sink page is treated as linking to every page: at the end of a
\* round, new_rank(p) = (1 - d)/N + d * (sum over non-sink i linking to p of
\* old_rank(i)/|corpus[i]| + sum over sink i of old_rank(i)/N).
C1_SinkContribution ==
    RoundOver =>
        \A p \in DOMAIN corpus :
            LET N == Cardinality(DOMAIN corpus)
                linking == {i \in DOMAIN corpus : p \in corpus[i]}
                sinks == {i \in DOMAIN corpus : corpus[i] = {}}
                byLink == [i \in linking |->
                              RDivInt[old_pagerank[i], Cardinality(corpus[i])]]
                bySink == [i \in sinks |-> RDivInt[old_pagerank[i], N]]
            IN  pagerank[p] =
                    RAdd[RDivInt[RSub[One, damping_factor], N],
                         RMul[damping_factor,
                              RAdd[RSum(byLink, linking), RSum(bySink, sinks)]]]

\* C2: the rank table sums to 1.0 (within 1e-3) after the initialization,
\* after every completed round and when it is returned.
C2_SumsToOne ==
    (pc = "iterate_copy" \/ RoundOver \/ pc = "iterate_done") =>
        RLess[RAbs[RSub[RSum(pagerank, DOMAIN pagerank), One]], Tolerance]

\* C9: within a round every new rank is computed from the snapshot taken at
\* the round's start: whatever the order of the visits, a visited page holds
\* the rank the snapshot gives it and an unvisited page still holds the
\* snapshot's rank, so the table after the round is a function of the
\* snapshot alone.
C9_SimultaneousUpdate ==
    pc = "iterate_update" =>
        \A p \in DOMAIN corpus :
            pagerank[p] =
                IF p \in unvisited THEN old_pagerank[p]
                ELSE new_rank(corpus, damping_factor, old_pagerank, p)

\* a round over a three-page corpus has ended (in some order of the visits)
\* in which a page and a page linking to it both changed rank
C9_Witness ==
    /\ RoundOver
    /\ Cardinality(DOMAIN corpus) = 3
    /\ \E p, q \in DOMAIN corpus :
          /\ p \in corpus[q]
          /\ pagerank[q] # old_pagerank[q]
          /\ pagerank[p] # old_pagerank[p]

\* every page changed by less than 0.001 in the round that is over
AllBelowTolerance ==
    \A p \in DOMAIN corpus :
        LET change == RAbs[RSub[old_pagerank[p], pagerank[p]]]
        IN  Less[change[1], change[2], 1, 1000]

\* C10: every page starts at 1/|corpus|; the function returns only from the
\* end of a round, exactly when every page changed by less than 0.001 in
\* that round, and with the table that round produced; otherwise another
\* round follows.
C10_ReturnsAtFirstQuietRound ==
    [][/\ pc = "iterate_init" =>
             /\ pc' = "iterate_copy"
             /\ \A p \in DOMAIN corpus :
                   pagerank'[p] = <<1, Cardinality(DOMAIN corpus)>>
       /\ pc' = "iterate_done" =>
             /\ RoundOver
             /\ AllBelowTolerance
             /\ pagerank' = pagerank
       /\ (RoundOver /\ AllBelowTolerance) => pc' = "iterate_done"
       /\ (RoundOver /\ ~AllBelowTolerance) =>
             (pc' = "iterate_copy" /\ pagerank' = pagerank)
      ]_vars

\* the function has returned after a round that was not the first, and an
\* earlier round had a page changing by 0.001 or more
C10_Witness ==
    /\ pc = "iterate_done"
    /\ old_pagerank # initial_pagerank(corpus)
    /\ pagerank # old_pagerank

\* the pages reachable from p in the chain, a sink leading to every page
RECURSIVE Reach(_, _)
Reach(c, S) ==
    LET T == S \cup UNION {linked_pages(c, q) : q \in S}
    IN  IF T = S THEN S ELSE Reach(c, T)

\* the closed communicating classes of the chain
ClosedClasses(c) ==
    {Reach(c, {p}) : p \in {q \in DOMAIN c :
                              \A r \in Reach(c, {q}) : q \in Reach(c, {r})}}

\* C3 as stated: the loop exits whenever damping_factor < 1, and also when
\* damping_factor = 1 and the chain has a single closed class.
C3_TerminatesUnlessSeveralClasses ==
    (pc = "iterate_init" /\
       (RLess[damping_factor, One] \/ Cardinality(ClosedClasses(corpus)) = 1))
       ~> (pc = "iterate_done")

\* C3 as amended: the loop exits whenever damping_factor < 1.
C3_TerminatesBelowOne ==
    (pc = "iterate_init" /\ RLess[damping_factor, One]) ~> (pc = "iterate_done")

\* the function has returned after several rounds under a damping factor
\* strictly between 0 and 1, on a corpus with a sink
C3_Witness ==
    /\ pc = "iterate_done"
    /\ RLess[Zero, damping_factor]
    /\ RLess[damping_factor, One]
    /\ old_pagerank # initial_pagerank(corpus)
    /\ \E p \in DOMAIN corpus : corpus[p] = {}

====
